---- MODULE Spec2Model ----
(***************************************************************************)
(* The host-side indirect-call bridge call_callback_by_name               *)
(* (callback_shim.c) and the engine primitives it calls, as a state        *)
(* machine.  Each thread of Threads is a host thread that may invoke the   *)
(* bridge against the one module instance; an action is one engine call    *)
(* of the bridge together with the local statements around it.             *)
(***************************************************************************)
EXTENDS Integers, Sequences, FiniteSets, TLC

\* ------------------------------------------------------------------ bounds
MaxCalls == 2            \* invocations of the bridge, over all threads
MaxExecEnvs == 2         \* execution contexts the engine can hold at once
TableSize == 2           \* slots of the module's function table
MaxArg == 1              \* arguments are drawn from 0..MaxArg

\* ------------------------------------------------------- program constants
NULL == 0                \* the null wasm_exec_env_t

\* Two host threads call the bridge: what one invocation can do to another
\* shows between two of them.
Threads == {1, 2}
ExecEnvs == 1..MaxExecEnvs
Args == 0..MaxArg
NullFunc == "NULL"       \* the null wasm_function_inst_t
\* The export names lookup tells apart: only "addr" is ever looked up.
ExportNames == {"addr"}

\* What a slot of the function table holds: a function of the signature
\* (i32) -> () that returns, one of that signature that traps, or an entry
\* the engine's indirect call rejects (uninitialised or of another type).
FuncKinds == {"ok", "traps", "mismatch"}
TableIndices == 0..(TableSize - 1)
\* The values the guest's addr() may return: every table index and the
\* first index past the table.
AddrValues == 0..TableSize
\* The behaviour of the export "addr": <<>> when it traps, <<v>> when it
\* returns v.
AddrBehaviours == {<<>>} \cup { <<v>> : v \in AddrValues }

ModuleInstances ==
    [exports : SUBSET ExportNames, addr : AddrBehaviours,
     table : [TableIndices -> FuncKinds]]

VARIABLES
    module_inst,   \* the module instance the caller hands to the bridge
    cur_exception, \* engine: the last error recorded on the module instance
    exec_envs,     \* engine: per context, is it live, who created it, was it misused
    n_created,     \* engine: contexts created so far
    n_destroyed,   \* engine: destroy calls so far
    pc,            \* per thread: the line of call_callback_by_name it is at
    arg,           \* per thread: parameter arg
    exec_env,      \* per thread: local exec_env
    addr_func,     \* per thread: local addr_func
    results,       \* per thread: local results[1]
    func_index,    \* per thread: local func_index
    ret,           \* per thread: the value the last invocation returned
    ncalls,        \* invocations started so far
    trace,         \* per thread: engine calls of the current invocation, in order
    guest_runs,    \* per thread: table functions run in the current invocation
    stdout         \* per thread: what the current invocation printed

vars == <<module_inst, cur_exception, exec_envs, n_created, n_destroyed, pc, arg, exec_env,
          addr_func, results, func_index, ret, ncalls, trace, guest_runs, stdout>>

locals == <<arg, exec_env, addr_func, results, func_index>>

\* ------------------------------------------------------ engine primitives

\* One engine call as the trace records it.
EngineCall(op, env, ok, val, argc, argv) ==
    [op |-> op, env |-> env, ok |-> ok, val |-> val, argc |-> argc, argv |-> argv]

\* create_execution_context: null (always possible: the engine may be out
\* of memory), or the first context that is not live.  Which free context
\* the engine hands out has no bearing on the bridge.
wasm_runtime_create_exec_env ==
    {NULL} \cup { c \in ExecEnvs : /\ ~exec_envs[c].live
                                   /\ \A d \in ExecEnvs : d < c => exec_envs[d].live }

\* lookup_export: exact match against the export table, no side effect.
wasm_runtime_lookup_function(inst, name) ==
    IF name \in inst.exports THEN name ELSE NullFunc

\* call_export with zero arguments and one result slot: on success the
\* slot holds the value the export returned, on a trap it is left alone.
wasm_runtime_call_wasm(inst, func, argv) ==
    IF func = "addr" /\ inst.addr # <<>>
    THEN [ok |-> TRUE, argv |-> <<inst.addr[1]>>]
    ELSE [ok |-> FALSE, argv |-> argv]

\* call_indirect: the engine checks the index against the table's bounds
\* and the entry's signature before it runs anything.
wasm_runtime_call_indirect(inst, index) ==
    IF index \notin DOMAIN inst.table \/ inst.table[index] = "mismatch"
    THEN [ok |-> FALSE, ran |-> FALSE]
    ELSE [ok |-> inst.table[index] = "ok", ran |-> TRUE]

\* The description of the failure of a call: it tells the call that failed,
\* and for a table function that trapped it may depend on the slot and on
\* the argument the function was given.
ExceptionOf(op, index, argv) == [op |-> op, index |-> index, argv |-> argv]
\* No error recorded.
NoException == ExceptionOf("none", 0, <<>>)

\* What a call leaves as the module instance's last error: a failing call
\* records its own description, a successful one leaves the record alone.
RecordException(exc, ok, op, index, argv) ==
    IF ok THEN exc ELSE ExceptionOf(op, index, argv)

\* get_last_error_description(module_instance): the one record the module
\* instance holds.
wasm_runtime_get_exception(exc) == exc

\* Is a call that thread t makes on context c a call on a context that is
\* not its own live one?
Foreign(envs, c, t) == ~envs[c].live \/ envs[c].creator # t

\* The engine's bookkeeping of a call made on context c by thread t.
UseEnv(envs, c, t) ==
    IF c \in ExecEnvs
    THEN [envs EXCEPT ![c].misused = @ \/ Foreign(envs, c, t)]
    ELSE envs

\* destroy_execution_context: the context is gone.
wasm_runtime_destroy_exec_env(envs, c, t) ==
    IF c \in ExecEnvs
    THEN [envs EXCEPT ![c] = [live |-> FALSE, creator |-> NULL,
                              misused |-> @.misused \/ Foreign(envs, c, t)]]
    ELSE envs

\* ------------------------------------------------------------- the bridge

Init ==
    /\ module_inst \in ModuleInstances
    /\ cur_exception = NoException
    /\ exec_envs = [c \in ExecEnvs |-> [live |-> FALSE, creator |-> NULL, misused |-> FALSE]]
    /\ n_created = 0
    /\ n_destroyed = 0
    /\ pc = [t \in Threads |-> "idle"]
    /\ arg = [t \in Threads |-> 0]
    /\ exec_env = [t \in Threads |-> NULL]
    /\ addr_func = [t \in Threads |-> NullFunc]
    /\ results = [t \in Threads |-> <<0>>]
    /\ func_index = [t \in Threads |-> 0]
    /\ ret = [t \in Threads |-> FALSE]
    /\ ncalls = 0
    /\ trace = [t \in Threads |-> <<>>]
    /\ guest_runs = [t \in Threads |-> <<>>]
    /\ stdout = [t \in Threads |-> <<>>]

\* A line printed: its text, and for a "%s" the description it was given.
Printf(text, reason) == [text |-> text, reason |-> reason]

\* The local exec_env as thread t reads it.  (EnvOf_Static: the variable
\* declared static, so that every thread reads the one of thread 1.)
EnvOf_Static(t) == exec_env[1]
EnvOf(t) == exec_env[t]

\* The value a return statement hands to the caller.  (ReturnValue_True:
\* every exit returns true.  ReturnValue_FirstOnly: success is reported by
\* the first invocation only, as with a static once-flag.)
ReturnValue_True(b) == TRUE
ReturnValue_FirstOnly(b) == b /\ ncalls = 1
ReturnValue(b) == b

\* Line 25: if (!exec_env).  (AfterCreate_Unchecked: the test left out.)
AfterCreate_Unchecked(c) == "L30"
AfterCreate(c) == IF c = NULL THEN "L26" ELSE "L30"

\* Line 31: if (!addr_func).  (AfterLookup_Unchecked: the test left out.)
AfterLookup_Unchecked(f) == "L38"
AfterLookup(f) == IF f = NullFunc THEN "L32" ELSE "L38"

\* Line 38: if (!wasm_runtime_call_wasm(...)).  (AfterCallWasm_Unchecked:
\* the result of the call ignored.)
AfterCallWasm_Unchecked(ok) == "L44"
\* (AfterCallWasm_Wait: on failure the bridge waits at a place it never
\* leaves.)
AfterCallWasm_Wait(ok) == IF ok THEN "L44" ELSE "wait"
AfterCallWasm(ok) == IF ok THEN "L44" ELSE "L39"

\* Line 48: if (!wasm_runtime_call_indirect(...)).
\* (AfterCallIndirect_Retry: a failed indirect call tried again.)
AfterCallIndirect_Retry(ok) == IF ok THEN "L54" ELSE "L44"
AfterCallIndirect(ok) == IF ok THEN "L54" ELSE "L49"

\* Line 44: func_index = results[0].  (IndexZero: a constant index used
\* in place of the value the guest returned.)
IndexZero(res) == 0
IndexFromResults(res) == res[1]

\* Line 47: argv[1] = { arg }.  (ArgvZero: the argument dropped.)
ArgvZero(a) == <<0>>
Argv(a) == <<a>>

\* A caller enters call_callback_by_name(module_inst, stack_size, a).
Call(t) ==
    /\ pc[t] \in {"idle", "returned"}
    /\ ncalls < MaxCalls
    /\ \E a \in Args : arg' = [arg EXCEPT ![t] = a]
    /\ ncalls' = ncalls + 1
    /\ pc' = [pc EXCEPT ![t] = "L24"]
    /\ exec_env' = [exec_env EXCEPT ![t] = NULL]
    /\ addr_func' = [addr_func EXCEPT ![t] = NullFunc]
    /\ results' = [results EXCEPT ![t] = <<0>>]
    /\ func_index' = [func_index EXCEPT ![t] = 0]
    /\ trace' = [trace EXCEPT ![t] = <<>>]
    /\ guest_runs' = [guest_runs EXCEPT ![t] = <<>>]
    /\ stdout' = [stdout EXCEPT ![t] = <<>>]
    /\ UNCHANGED <<module_inst, cur_exception, exec_envs, n_created, n_destroyed, ret>>

\* Line 24: exec_env = wasm_runtime_create_exec_env(module_inst, stack_size).
CreateExecEnv(t) ==
    /\ pc[t] = "L24"
    /\ \E c \in wasm_runtime_create_exec_env :
        /\ exec_env' = [exec_env EXCEPT ![t] = c]
        /\ exec_envs' = IF c = NULL THEN exec_envs
                        ELSE [exec_envs EXCEPT
                                ![c] = [live |-> TRUE, creator |-> t,
                                        misused |-> @.misused]]
        /\ n_created' = IF c = NULL THEN n_created ELSE n_created + 1
        /\ trace' = [trace EXCEPT
                       ![t] = Append(@, EngineCall("create", c, c # NULL, 0, 0, <<>>))]
        /\ pc' = [pc EXCEPT ![t] = AfterCreate(c)]
    /\ UNCHANGED <<module_inst, cur_exception, n_destroyed, arg, addr_func, results, func_index,
                   ret, ncalls, guest_runs, stdout>>

\* Lines 25-28: context creation failed.
CreateFailed(t) ==
    /\ pc[t] = "L26"
    /\ stdout' = [stdout EXCEPT ![t] = Append(@, Printf("Failed to create exec env", NoException))]
    /\ ret' = [ret EXCEPT ![t] = ReturnValue(FALSE)]
    /\ pc' = [pc EXCEPT ![t] = "returned"]
    /\ UNCHANGED <<module_inst, cur_exception, exec_envs, n_created, n_destroyed, locals, ncalls,
                   trace, guest_runs>>

\* Line 30: addr_func = wasm_runtime_lookup_function(module_inst, "addr").
LookupFunction(t) ==
    /\ pc[t] = "L30"
    /\ LET f == wasm_runtime_lookup_function(module_inst, "addr") IN
        /\ addr_func' = [addr_func EXCEPT ![t] = f]
        /\ trace' = [trace EXCEPT
                       ![t] = Append(@, EngineCall("lookup", NULL, f # NullFunc, 0, 0, <<>>))]
        /\ pc' = [pc EXCEPT ![t] = AfterLookup(f)]
    /\ UNCHANGED <<module_inst, cur_exception, exec_envs, n_created, n_destroyed, arg, exec_env,
                   results, func_index, ret, ncalls, guest_runs, stdout>>

\* (ReturnWithoutDestroy: the destroy forgotten before the return.)
ReturnWithoutDestroy(t, b) ==
    /\ ret' = [ret EXCEPT ![t] = ReturnValue(b)]
    /\ pc' = [pc EXCEPT ![t] = "returned"]
    /\ UNCHANGED <<exec_envs, n_destroyed, trace>>

\* wasm_runtime_destroy_exec_env(exec_env); return b;
DestroyAndReturn(t, b) ==
    /\ exec_envs' = wasm_runtime_destroy_exec_env(exec_envs, EnvOf(t), t)
    /\ n_destroyed' = n_destroyed + 1
    /\ trace' = [trace EXCEPT
                   ![t] = Append(@, EngineCall("destroy", EnvOf(t), TRUE, 0, 0, <<>>))]
    /\ ret' = [ret EXCEPT ![t] = ReturnValue(b)]
    /\ pc' = [pc EXCEPT ![t] = "returned"]

\* (LookupFailed_NoDestroy: line 33 missing.)
LookupFailed_NoDestroy(t) ==
    /\ pc[t] = "L32"
    /\ stdout' = [stdout EXCEPT ![t] = Append(@, Printf("Failed to find addr.", NoException))]
    /\ ReturnWithoutDestroy(t, FALSE)
    /\ UNCHANGED <<module_inst, cur_exception, n_created, locals, ncalls, guest_runs>>

\* Lines 31-35: no export named "addr".
LookupFailed(t) ==
    /\ pc[t] = "L32"
    /\ stdout' = [stdout EXCEPT ![t] = Append(@, Printf("Failed to find addr.", NoException))]
    /\ DestroyAndReturn(t, FALSE)
    /\ UNCHANGED <<module_inst, cur_exception, n_created, locals, ncalls, guest_runs>>

\* Lines 37-38: results[0] = 0; wasm_runtime_call_wasm(exec_env, addr_func, 0, results).
CallWasm(t) ==
    /\ pc[t] = "L38"
    /\ LET r == wasm_runtime_call_wasm(module_inst, addr_func[t], <<0>>) IN
        /\ results' = [results EXCEPT ![t] = r.argv]
        /\ exec_envs' = UseEnv(exec_envs, EnvOf(t), t)
        /\ trace' = [trace EXCEPT
                       ![t] = Append(@, EngineCall("call_wasm", EnvOf(t), r.ok,
                                                   r.argv[1], 0, <<0>>))]
        /\ cur_exception' = RecordException(cur_exception, r.ok, "call_wasm", 0, <<>>)
        /\ pc' = [pc EXCEPT ![t] = AfterCallWasm(r.ok)]
    /\ UNCHANGED <<module_inst, n_created, n_destroyed, arg, exec_env, addr_func,
                   func_index, ret, ncalls, guest_runs, stdout>>

\* (CallWasmFailed_Clears: the bridge clears the module instance's error
\* once it has reported it.)
CallWasmFailed_Clears(t) ==
    /\ pc[t] = "L39"
    /\ stdout' = [stdout EXCEPT
                    ![t] = Append(@, Printf("Failed to invoke 'addr'",
                                            wasm_runtime_get_exception(cur_exception)))]
    /\ cur_exception' = NoException
    /\ pc' = [pc EXCEPT ![t] = "L40"]
    /\ UNCHANGED <<module_inst, exec_envs, n_created, n_destroyed, locals, ret,
                   ncalls, trace, guest_runs>>

\* Line 39: the call of "addr" failed; report it with
\* wasm_runtime_get_exception(module_inst).
CallWasmFailed(t) ==
    /\ pc[t] = "L39"
    /\ stdout' = [stdout EXCEPT
                    ![t] = Append(@, Printf("Failed to invoke 'addr'",
                                            wasm_runtime_get_exception(cur_exception)))]
    /\ pc' = [pc EXCEPT ![t] = "L40"]
    /\ UNCHANGED <<module_inst, cur_exception, exec_envs, n_created, n_destroyed, locals, ret,
                   ncalls, trace, guest_runs>>

\* Lines 40-41.
CallWasmFailedReturn(t) ==
    /\ pc[t] = "L40"
    /\ DestroyAndReturn(t, FALSE)
    /\ UNCHANGED <<module_inst, cur_exception, n_created, locals, ncalls, guest_runs, stdout>>

\* Lines 44-48: func_index = results[0]; argv[0] = arg;
\* wasm_runtime_call_indirect(exec_env, func_index, 1, argv).
CallIndirect(t) ==
    /\ pc[t] = "L44"
    /\ LET index == IndexFromResults(results[t])
           argv == Argv(arg[t])
           r == wasm_runtime_call_indirect(module_inst, index) IN
        /\ func_index' = [func_index EXCEPT ![t] = index]
        /\ stdout' = [stdout EXCEPT ![t] = Append(@, Printf("Got function index from Wasm", NoException))]
        /\ exec_envs' = UseEnv(exec_envs, EnvOf(t), t)
        /\ guest_runs' = [guest_runs EXCEPT
                            ![t] = IF r.ran THEN Append(@, <<index, argv[1]>>) ELSE @]
        /\ trace' = [trace EXCEPT
                       ![t] = Append(@, EngineCall("call_indirect", EnvOf(t), r.ok,
                                                   index, 1, argv))]
        /\ cur_exception' = RecordException(cur_exception, r.ok, "call_indirect",
                                             index, argv)
        /\ pc' = [pc EXCEPT ![t] = AfterCallIndirect(r.ok)]
    /\ UNCHANGED <<module_inst, n_created, n_destroyed, arg, exec_env, addr_func,
                   results, ret, ncalls>>

\* (CallIndirectFailed_WrongStage: the report of line 39 pasted here.)
CallIndirectFailed_WrongStage(t) ==
    /\ pc[t] = "L49"
    /\ stdout' = [stdout EXCEPT
                    ![t] = Append(@, Printf("Failed to invoke 'addr'",
                                            wasm_runtime_get_exception(cur_exception)))]
    /\ pc' = [pc EXCEPT ![t] = "L50"]
    /\ UNCHANGED <<module_inst, cur_exception, exec_envs, n_created, n_destroyed, locals, ret,
                   ncalls, trace, guest_runs>>

\* Line 49: the indirect call failed; report it with
\* wasm_runtime_get_exception(module_inst).
CallIndirectFailed(t) ==
    /\ pc[t] = "L49"
    /\ stdout' = [stdout EXCEPT
                    ![t] = Append(@, Printf("Indirect call failed",
                                            wasm_runtime_get_exception(cur_exception)))]
    /\ pc' = [pc EXCEPT ![t] = "L50"]
    /\ UNCHANGED <<module_inst, cur_exception, exec_envs, n_created, n_destroyed, locals, ret,
                   ncalls, trace, guest_runs>>

\* (CallIndirectFailedReturn_NoDestroy: line 50 missing.)
CallIndirectFailedReturn_NoDestroy(t) ==
    /\ pc[t] = "L50"
    /\ ReturnWithoutDestroy(t, FALSE)
    /\ UNCHANGED <<module_inst, cur_exception, n_created, locals, ncalls, guest_runs, stdout>>

\* Lines 50-51.
CallIndirectFailedReturn(t) ==
    /\ pc[t] = "L50"
    /\ DestroyAndReturn(t, FALSE)
    /\ UNCHANGED <<module_inst, cur_exception, n_created, locals, ncalls, guest_runs, stdout>>

\* Lines 54-56: full success.
Succeeded(t) ==
    /\ pc[t] = "L54"
    /\ stdout' = [stdout EXCEPT ![t] = Append(@, Printf("indirect call succeeded.", NoException))]
    /\ DestroyAndReturn(t, TRUE)
    /\ UNCHANGED <<module_inst, cur_exception, n_created, locals, ncalls, guest_runs>>

Next ==
    \E t \in Threads :
        \/ Call(t)
        \/ CreateExecEnv(t)
        \/ CreateFailed(t)
        \/ LookupFunction(t)
        \/ LookupFailed(t)
        \/ CallWasm(t)
        \/ CallWasmFailed(t)
        \/ CallWasmFailedReturn(t)
        \/ CallIndirect(t)
        \/ CallIndirectFailed(t)
        \/ CallIndirectFailedReturn(t)
        \/ Succeeded(t)

Spec == Init /\ [][Next]_vars

\* The steps of the invocation thread t is in: all but the entry, which is
\* the caller's choice.
Step(t) ==
    \/ CreateExecEnv(t)
    \/ CreateFailed(t)
    \/ LookupFunction(t)
    \/ LookupFailed(t)
    \/ CallWasm(t)
    \/ CallWasmFailed(t)
    \/ CallWasmFailedReturn(t)
    \/ CallIndirect(t)
    \/ CallIndirectFailed(t)
    \/ CallIndirectFailedReturn(t)
    \/ Succeeded(t)

\* Every engine call returns and every host thread keeps running: a thread
\* inside the bridge takes its next step.
FairSpec == Spec /\ \A t \in Threads : WF_vars(Step(t))

\* ----------------------------------------------------- reading the traces

Returned(t) == pc[t] = "returned"
InFlight(t) == pc[t] \notin {"idle", "returned"}
Quiescent == \A t \in Threads : ~InFlight(t)

\* The positions of thread t's trace that hold a call of op.
Calls(t, op) == { i \in DOMAIN trace[t] : trace[t][i].op = op }
\* Did thread t's current invocation call op and get success?
StageOk(t, op) == \E i \in Calls(t, op) : trace[t][i].ok
\* Did it call op and get failure?
StageFailed(t, op) == \E i \in Calls(t, op) : ~trace[t][i].ok
\* The contexts the invocation got from the engine.
CreatedBy(t) == { trace[t][i].env : i \in { j \in Calls(t, "create") : trace[t][j].ok } }
\* The destroy calls of the invocation on context c.
DestroysOf(t, c) == { i \in Calls(t, "destroy") : trace[t][i].env = c }
\* The contexts of the engine that are live and were created by thread t.
LiveOf(t) == { c \in ExecEnvs : exec_envs[c].live /\ exec_envs[c].creator = t }
Stages == {"create", "lookup", "call_wasm", "call_indirect"}

\* The module instance has an export "addr" that returns the index of a
\* table function of the signature (i32) -> ().
AddrNamesCompatible ==
    /\ "addr" \in module_inst.exports
    /\ module_inst.addr # <<>>
    /\ module_inst.addr[1] \in TableIndices
    /\ module_inst.table[module_inst.addr[1]] # "mismatch"

\* ------------------------------------------------------------------ claims

\* C1: an invocation that got a context has destroyed exactly that context
\* exactly once when it returns, whichever exit it took; and when no
\* invocation is in flight, as many contexts were destroyed as created and
\* none is live.
C1_ReleasedExactlyOnce ==
    /\ \A t \in Threads : Returned(t) =>
          /\ \A c \in CreatedBy(t) : Cardinality(DestroysOf(t, c)) = 1
          /\ Cardinality(Calls(t, "destroy")) = Cardinality(CreatedBy(t))
    /\ Quiescent =>
          /\ n_created = n_destroyed
          /\ \A c \in ExecEnvs : ~exec_envs[c].live

\* C1 witness: two invocations have returned, each after it got a context,
\* one of them by a failure exit.
C1_Witness ==
    /\ Quiescent
    /\ n_created = 2 /\ n_destroyed = 2
    /\ \E t \in Threads : Returned(t) /\ ~ret[t] /\ CreatedBy(t) # {}

\* C2: an invocation in which a stage failed returned false, and one that
\* returned true had all four stages succeed.
C2_FalseOnAnyFailure ==
    \A t \in Threads : Returned(t) =>
        /\ (\E op \in Stages : StageFailed(t, op)) => ~ret[t]
        /\ ret[t] => \A op \in Stages : StageOk(t, op)

\* C2 witness: one invocation returned true and another one false.
C2_Witness ==
    \E t, u \in Threads : Returned(t) /\ Returned(u) /\ ret[t] /\ ~ret[u]

\* C3 as claimed: with "addr" naming a compatible table function, every
\* invocation returns true and has run that function once with its argument.
C3_AsClaimed ==
    \A t \in Threads : (Returned(t) /\ AddrNamesCompatible) =>
        /\ ret[t]
        /\ guest_runs[t] = << <<module_inst.addr[1], arg[t]>> >>

\* C3 amended: with "addr" naming a compatible table function f, an
\* invocation that got its context has run f exactly once, with its own
\* argument, and nothing else of the table, and it returned true exactly if
\* f did not trap; an invocation that got no context ran nothing and
\* returned false.
C3_RunsNamedFunctionOnce ==
    \A t \in Threads : (Returned(t) /\ AddrNamesCompatible) =>
        IF StageOk(t, "create")
        THEN /\ guest_runs[t] = << <<module_inst.addr[1], arg[t]>> >>
             /\ ret[t] <=> (module_inst.table[module_inst.addr[1]] = "ok")
        ELSE /\ guest_runs[t] = <<>>
             /\ ~ret[t]

\* C3 witness: slot 1 of a table whose slot 0 holds a function too was run
\* with argument 1, and the invocation returned true.
C3_Witness ==
    \E t \in Threads :
        /\ Returned(t) /\ ret[t]
        /\ module_inst.table[0] = "ok"
        /\ arg[t] = 1
        /\ guest_runs[t] = << <<1, 1>> >>

\* C4: without an export "addr" an invocation returns false, calls no
\* export and makes no indirect call, and has destroyed the context it
\* created; with nothing in flight the counts balance.
C4_NoAddrExport ==
    ("addr" \notin module_inst.exports) =>
        /\ \A t \in Threads :
              /\ Calls(t, "call_wasm") = {} /\ Calls(t, "call_indirect") = {}
              /\ guest_runs[t] = <<>>
              /\ Returned(t) =>
                    /\ ~ret[t]
                    /\ \A c \in CreatedBy(t) : DestroysOf(t, c) # {}
                    /\ LiveOf(t) = {}
        /\ Quiescent => n_created = n_destroyed

\* C4 witness: an invocation got a context, found no "addr" and returned.
C4_Witness ==
    \E t \in Threads :
        /\ Returned(t) /\ "addr" \notin module_inst.exports
        /\ StageOk(t, "create") /\ StageFailed(t, "lookup")

\* The export "addr" exists and traps, or returns an index out of the
\* table's bounds or of a slot the indirect call rejects.
AddrBad ==
    /\ "addr" \in module_inst.exports
    /\ \/ module_inst.addr = <<>>
       \/ module_inst.addr[1] \notin TableIndices
       \/ module_inst.table[module_inst.addr[1]] = "mismatch"

\* C5: when "addr" traps or returns an index that is out of bounds or of a
\* mismatched signature, no table function is ever run, and a returned
\* invocation returned false with its context released.
C5_BadAddrFails ==
    AddrBad =>
        \A t \in Threads :
            /\ guest_runs[t] = <<>>
            /\ Returned(t) =>
                  /\ ~ret[t]
                  /\ \A c \in CreatedBy(t) : DestroysOf(t, c) # {}
                  /\ LiveOf(t) = {}

\* C5 witness: "addr" returns the first index past the table, and two
\* invocations have returned after the engine rejected that index.
C5_Witness ==
    /\ AddrBad
    /\ module_inst.addr = <<TableSize>>
    /\ \A t \in Threads :
          Returned(t) /\ StageOk(t, "call_wasm") /\ StageFailed(t, "call_indirect")

\* C6: an invocation whose context creation returned null makes no other
\* engine call, runs nothing, and returns false.
C6_NothingAfterNullContext ==
    \A t \in Threads : StageFailed(t, "create") =>
        /\ Len(trace[t]) = 1
        /\ guest_runs[t] = <<>>
        /\ pc[t] \in {"L26", "returned"}
        /\ Returned(t) => ~ret[t]

\* C6 witness: an invocation returned after its context creation failed.
C6_Witness ==
    \E t \in Threads : Returned(t) /\ StageFailed(t, "create") /\ ncalls = 2

\* The place of an engine call in the order of one invocation.
Rank(op) ==
    CASE op = "create" -> 1
      [] op = "lookup" -> 2
      [] op = "call_wasm" -> 3
      [] op = "call_indirect" -> 4
      [] op = "destroy" -> 5

\* C7: the engine calls of one invocation are in the order create, lookup,
\* call of "addr", indirect call, destroy; each of the middle three comes
\* right after the success of the one before; the destroy is the last call
\* and is made on the context created.
C7_StrictOrder ==
    \A t \in Threads :
        /\ \A i, j \in DOMAIN trace[t] :
              i < j => Rank(trace[t][i].op) < Rank(trace[t][j].op)
        /\ \A j \in DOMAIN trace[t] :
              /\ (j = 1) <=> (trace[t][j].op = "create")
              /\ trace[t][j].op \in {"lookup", "call_wasm", "call_indirect"} =>
                    /\ trace[t][j - 1].ok
                    /\ Rank(trace[t][j - 1].op) = Rank(trace[t][j].op) - 1
              /\ trace[t][j].op = "destroy" =>
                    /\ trace[t][j].env \in CreatedBy(t)
                    /\ Returned(t)

\* C7 witness: an invocation made all five engine calls.
C7_Witness ==
    \E t \in Threads :
        /\ Len(trace[t]) = 5
        /\ trace[t][5].op = "destroy"
        /\ \E u \in Threads : u # t /\ InFlight(u)

\* C8: no context is ever called into or destroyed by a thread other than
\* the one whose invocation created it, and two invocations in flight do
\* not hold the same context.
C8_ContextsNotShared ==
    /\ \A c \in ExecEnvs : ~exec_envs[c].misused
    /\ \A t \in Threads : \A i \in DOMAIN trace[t] :
          trace[t][i].op \in {"call_wasm", "call_indirect", "destroy"} =>
              trace[t][i].env = trace[t][1].env
    /\ \A t, u \in Threads :
          (t # u /\ pc[t] \notin {"idle", "returned", "L24", "L26"}
                  /\ pc[u] \notin {"idle", "returned", "L24", "L26"}) =>
              EnvOf(t) # EnvOf(u)

\* C8 witness: two invocations are in flight, each has called "addr" on its
\* context.
C8_Witness ==
    /\ \A t \in Threads : pc[t] = "L44"
    /\ exec_env[1] # exec_env[2]

\* The answers the engine gave to an invocation: per stage reached, whether
\* it succeeded and the value it produced.
Answers(t) ==
    [i \in { j \in DOMAIN trace[t] : trace[t][j].op \in Stages } |->
        <<trace[t][i].op, trace[t][i].ok, trace[t][i].val>>]

\* C9: two invocations with the same argument to which the engine gave the
\* same answers returned the same value.
C9_OutcomeFunctionOfAnswers ==
    \A t, u \in Threads :
        (Returned(t) /\ Returned(u) /\ arg[t] = arg[u] /\ Answers(t) = Answers(u))
            => ret[t] = ret[u]

\* C9 witness: two invocations with the same argument and the same
\* answers, all four stages long, have returned.
C9_Witness ==
    \E t, u \in Threads :
        /\ t # u /\ Returned(t) /\ Returned(u)
        /\ arg[t] = arg[u] /\ Answers(t) = Answers(u)
        /\ Len(trace[t]) = 5 /\ ret[t]

\* C10: an invocation holds at most one live context, holds none once it
\* has returned, and makes no call on a context it has destroyed.
C10_ContextWithinInvocation ==
    \A t \in Threads :
        /\ Cardinality(LiveOf(t)) <= 1
        /\ ~InFlight(t) => LiveOf(t) = {}
        /\ \A i, j \in DOMAIN trace[t] :
              (i < j /\ trace[t][i].op = "destroy") =>
                  trace[t][j].env # trace[t][i].env
        /\ \A i \in DOMAIN trace[t] :
              (trace[t][i].op \in {"call_wasm", "call_indirect"} /\ InFlight(t)) =>
                  trace[t][i].env \in LiveOf(t)

\* C10 witness: an invocation whose indirect call failed has returned
\* while the context of the other invocation is live.
C10_Witness ==
    \E t, u \in Threads :
        /\ Returned(t) /\ StageFailed(t, "call_indirect")
        /\ LiveOf(t) = {} /\ LiveOf(u) # {}

\* C11: the index handed to call_indirect is the value the call of "addr"
\* left in results[0], whatever that value is: once "addr" has returned,
\* the bridge goes on to the indirect call with it and nothing else; the
\* indirect call gets one argument, the caller's; "addr" gets none; and a
\* table function runs only where a call_indirect of the trace ran it.
C11_IndexPassedVerbatim ==
    \A t \in Threads :
        /\ \A i \in Calls(t, "call_wasm") :
              /\ trace[t][i].argc = 0
              /\ trace[t][i].ok => trace[t][i].val = module_inst.addr[1]
              /\ (trace[t][i].ok /\ Returned(t)) => Calls(t, "call_indirect") # {}
        /\ \A j \in Calls(t, "call_indirect") :
              /\ trace[t][j].val = trace[t][j - 1].val
              /\ trace[t][j].argc = 1
              /\ trace[t][j].argv = <<arg[t]>>
        /\ Len(guest_runs[t]) <= Cardinality(Calls(t, "call_indirect"))
        /\ \A k \in DOMAIN guest_runs[t] :
              \E j \in Calls(t, "call_indirect") :
                  guest_runs[t][k] = <<trace[t][j].val, trace[t][j].argv[1]>>

\* C11 witness: "addr" returned the index past the table and the bridge
\* handed just that index to call_indirect, with the argument 1.
C11_Witness ==
    \E t \in Threads :
        /\ Returned(t) /\ arg[t] = 1
        /\ module_inst.addr = <<TableSize>>
        /\ \E j \in Calls(t, "call_indirect") :
              trace[t][j].val = TableSize /\ trace[t][j].argv = <<1>>

\* C12: one invocation calls each engine primitive at most once, and after
\* a call that failed it makes no call but the destroy.
C12_NoRetry ==
    \A t \in Threads :
        /\ \A op \in Stages \cup {"destroy"} : Cardinality(Calls(t, op)) <= 1
        /\ \A i, j \in DOMAIN trace[t] :
              (i < j /\ ~trace[t][i].ok) => trace[t][j].op = "destroy"
        /\ Len(guest_runs[t]) <= 1

\* C12 witness: an invocation whose indirect call failed after the
\* function had run has returned.
C12_Witness ==
    \E t \in Threads :
        /\ Returned(t) /\ StageFailed(t, "call_indirect")
        /\ Len(guest_runs[t]) = 1 /\ Len(trace[t]) = 5

\* C13: under FairSpec (every engine call returns) an invocation that is
\* in flight returns, and when it has returned no context it created is
\* live.
C13_EventuallyReturns ==
    \A t \in Threads : InFlight(t) ~> (Returned(t) /\ LiveOf(t) = {})

\* C13 witness: both threads have been inside the bridge and have
\* returned, one of them through the failure exit of the indirect call.
C13_Witness ==
    /\ \A t \in Threads : Returned(t) /\ LiveOf(t) = {}
    /\ \E t \in Threads : StageFailed(t, "call_indirect") /\ Len(stdout[t]) = 2

\* The thread that takes the step, when the step is one of the bridge.
Acts(t) == pc'[t] # pc[t]
\* The step is an engine call of thread t that failed.
FailedCallBy(t) ==
    /\ Len(trace'[t]) = Len(trace[t]) + 1
    /\ ~trace'[t][Len(trace'[t])].ok

FailureTexts ==
    {"Failed to create exec env", "Failed to find addr.",
     "Failed to invoke 'addr'", "Indirect call failed"}
StageOfText(text) ==
    CASE text = "Failed to create exec env" -> "create"
      [] text = "Failed to find addr." -> "lookup"
      [] text = "Failed to invoke 'addr'" -> "call_wasm"
      [] text = "Indirect call failed" -> "call_indirect"
\* The failure reports the current invocation of thread t has printed.
FailureReports(t) == { i \in DOMAIN stdout[t] : stdout[t][i].text \in FailureTexts }

\* C15: an invocation that returned false printed exactly one failure
\* report, the one of the stage that failed, and one that returned true
\* printed none.
C15_OneReportPerFailure ==
    \A t \in Threads : Returned(t) =>
        IF ret[t]
        THEN FailureReports(t) = {}
        ELSE /\ Cardinality(FailureReports(t)) = 1
             /\ \A i \in FailureReports(t) :
                   StageFailed(t, StageOfText(stdout[t][i].text))

\* C15 witness: two invocations have returned false, and one has printed
\* the report of a failed indirect call.
C15_Witness ==
    /\ \A t \in Threads : Returned(t) /\ ~ret[t]
    /\ \E t \in Threads : \E i \in FailureReports(t) :
          stdout[t][i].text = "Indirect call failed"

\* The description the engine recorded for the failing call of op in the
\* current invocation of thread t.
RecordedFor(t, op) ==
    { IF op = "call_wasm"
      THEN ExceptionOf(op, 0, <<>>)
      ELSE ExceptionOf(op, trace[t][i].val, trace[t][i].argv) :
        i \in { j \in Calls(t, op) : ~trace[t][j].ok } }

\* C16 as claimed: the description an invocation prints with the report of
\* its failed call of "addr" or of its failed indirect call is the one the
\* engine recorded for that call.
C16_AsClaimed ==
    \A t \in Threads : \A i \in FailureReports(t) :
        stdout[t][i].text \in {"Failed to invoke 'addr'", "Indirect call failed"} =>
            stdout[t][i].reason \in RecordedFor(t, StageOfText(stdout[t][i].text))

====
